---- MODULE Spec2Model ----
(***************************************************************************)
(* Checkpoint persistence of fairseq/utils.py: torch_persistent_save,      *)
(* save_state, load_state, _upgrade_state_dict and                         *)
(* load_ensemble_for_inference; and its embedding loader: parse_embedding  *)
(* and load_embedding.                                                     *)
(*                                                                         *)
(* A Python dict is a function with a domain of strings, a Python list a   *)
(* sequence.  The file system is the function disk, whose domain is the    *)
(* set of paths that exist.  The stored blob of a path is the state dict   *)
(* that torch.save pickled there; torch.load returns it.                   *)
(***************************************************************************)
EXTENDS Integers, Sequences, FiniteSets, TLC

VARIABLES
    disk,       \* path -> stored state dict, for the paths that exist
    model,      \* weights held by the caller's model object
    optimizer,  \* state held by the caller's optimizer object
    best,       \* lr_scheduler.best of the caller's scheduler
    criterion,  \* criterion.__class__.__name__ of the caller's criterion
    chain,      \* entries made by the saves of the current save/load chain
    chainOk,    \* every save of the current chain stored its snapshot
    stateDict,  \* the state dict in the hands of _upgrade_state_dict
    last        \* the last call: its arguments and its outcome

vars == <<disk, model, optimizer, best, criterion, chain, chainOk, stateDict, last>>

----------------------------------------------------------------------------
(* Bounds *)

\* longest optimizer history a save is given
MaxHist == 1
\* longest chain of saves that pass the loaded history on
MaxChain == 3
\* number of torch.save calls whose outcome the storage fixes in advance
FailLen == 4
\* longest list of file names given to the ensemble loader
MaxEnsemble == 3
\* number of times the upgrade is applied to one state dict
MaxUpgrades == 2

(* Value domains of the opaque collaborators *)

\* points of training: what model.state_dict(), optimizer.state_dict() and
\* lr_scheduler.best hold there
TrainPoints == {[model |-> "w1", optimizer |-> "o1", best |-> 11],
                [model |-> "w2", optimizer |-> "o2", best |-> 12]}
Weights == {pt.model : pt \in TrainPoints}
\* args
ArgsSet == {"archA", "archB"}
TrainArgs == {"archA"}
\* extra_state of the caller
ExtraStates == {[epoch |-> 1, batch_offset |-> 0, val_loss |-> 21],
                [epoch |-> 2, batch_offset |-> 5, val_loss |-> 22]}
TrainExtras == {[epoch |-> 1, batch_offset |-> 0, val_loss |-> 21]}
Paths == {"p1", "p2", "p3"}
TrainPath == "p1"

\* Python's None where a dict is expected, distinct from the empty dict
None == [py_none |-> TRUE]
EmptyDict == <<>>
\* an optional argument: left at its default None, or given
Default == [is_none |-> TRUE]
Given(v) == [is_none |-> FALSE, value |-> v]

----------------------------------------------------------------------------
(* criterions *)

CrossEntropyCriterion == "CrossEntropyCriterion"
LabelSmoothedCrossEntropyCriterion == "LabelSmoothedCrossEntropyCriterion"
Criterions == {CrossEntropyCriterion, LabelSmoothedCrossEntropyCriterion}

----------------------------------------------------------------------------
(* torch_persistent_save *)

\* for i in range(3)
Retries == 3
\* if i == 2
LogIndex == 2

\* The loop from iteration i on; fails[k] says whether the k-th call of
\* torch.save raises.  What a call that raises leaves in the file is told by
\* StoreIfWritten.
RECURSIVE PersistentSaveLoop(_, _, _)
PersistentSaveLoop(i, fails, logged) ==
    IF i >= Retries
    THEN [attempts |-> i, logged |-> logged, written |-> FALSE, raised |-> FALSE]
    ELSE IF ~fails[i + 1]
         THEN [attempts |-> i + 1, logged |-> logged, written |-> TRUE, raised |-> FALSE]
         ELSE PersistentSaveLoop(i + 1, fails,
                                 IF i = LogIndex THEN logged + 1 ELSE logged)

\* Mutant: the error is logged on every failed attempt (the test i == 2 lost).
RECURSIVE PersistentSaveLoopLogEach(_, _, _)
PersistentSaveLoopLogEach(i, fails, logged) ==
    IF i >= Retries
    THEN [attempts |-> i, logged |-> logged, written |-> FALSE, raised |-> FALSE]
    ELSE IF ~fails[i + 1]
         THEN [attempts |-> i + 1, logged |-> logged, written |-> TRUE, raised |-> FALSE]
         ELSE PersistentSaveLoopLogEach(i + 1, fails, logged + 1)

torch_persistent_save_log_each(fails) == PersistentSaveLoopLogEach(0, fails, 0)

torch_persistent_save(fails) == PersistentSaveLoop(0, fails, 0)

----------------------------------------------------------------------------
(* _upgrade_state_dict *)

\* Mutant: del state['best_loss'] is missing.
AddOptimizerHistoryKeepsBestLoss(state) ==
    IF "optimizer_history" \notin DOMAIN state
    THEN [k \in (DOMAIN state \cup {"optimizer_history"}) \ {"optimizer"} |->
            IF k = "optimizer_history"
            THEN << [criterion_name |-> CrossEntropyCriterion,
                     optimizer |-> state["optimizer"],
                     best_loss |-> state["best_loss"]] >>
            ELSE state[k]]
    ELSE state

\* if 'optimizer_history' not in state: ...
AddOptimizerHistory(state) ==
    IF "optimizer_history" \notin DOMAIN state
    THEN [k \in (DOMAIN state \cup {"optimizer_history"}) \ {"optimizer", "best_loss"} |->
            IF k = "optimizer_history"
            THEN << [criterion_name |-> CrossEntropyCriterion,
                     optimizer |-> state["optimizer"],
                     best_loss |-> state["best_loss"]] >>
            ELSE state[k]]
    ELSE state

\* Mutant: the step is taken only once the history is there.
MoveExtraStateAfterHistory(state) ==
    IF /\ "epoch" \in DOMAIN state
       /\ "extra_state" \notin DOMAIN state
       /\ "optimizer_history" \in DOMAIN state
    THEN [k \in (DOMAIN state \cup {"extra_state"}) \ {"epoch", "batch_offset", "val_loss"} |->
            IF k = "extra_state"
            THEN [epoch |-> state["epoch"],
                  batch_offset |-> state["batch_offset"],
                  val_loss |-> state["val_loss"]]
            ELSE state[k]]
    ELSE state

\* Mutant: val_loss is deleted but not copied to extra_state.
MoveExtraStateLosesValLoss(state) ==
    IF "epoch" \in DOMAIN state /\ "extra_state" \notin DOMAIN state
    THEN [k \in (DOMAIN state \cup {"extra_state"}) \ {"epoch", "batch_offset", "val_loss"} |->
            IF k = "extra_state"
            THEN [epoch |-> state["epoch"],
                  batch_offset |-> state["batch_offset"]]
            ELSE state[k]]
    ELSE state

\* if 'epoch' in state and 'extra_state' not in state: ...
MoveExtraState(state) ==
    IF "epoch" \in DOMAIN state /\ "extra_state" \notin DOMAIN state
    THEN [k \in (DOMAIN state \cup {"extra_state"}) \ {"epoch", "batch_offset", "val_loss"} |->
            IF k = "extra_state"
            THEN [epoch |-> state["epoch"],
                  batch_offset |-> state["batch_offset"],
                  val_loss |-> state["val_loss"]]
            ELSE state[k]]
    ELSE state

\* Mutant: the second test is an elif, so that one call does one step only.
UpgradeOneStep(state) ==
    IF "optimizer_history" \notin DOMAIN state
    THEN AddOptimizerHistory(state)
    ELSE MoveExtraState(state)

\* the two steps in the order of the code
_upgrade_state_dict(state) == MoveExtraState(AddOptimizerHistory(state))

----------------------------------------------------------------------------
(* save_state *)

\* the entry save_state appends to the history
OptimEntry(c, o, b) == [criterion_name |-> c, optimizer |-> o, best_loss |-> b]

\* Mutant: the new entry is put in front of the history.
BuildStateDictPrepend(args, m, c, o, b, optim_history, extra_state) ==
    LET hist  == IF optim_history.is_none THEN <<>> ELSE optim_history.value
        extra == IF extra_state.is_none THEN EmptyDict ELSE extra_state.value
    IN  [args |-> args,
         model |-> m,
         optimizer_history |-> << OptimEntry(c, o, b) >> \o hist,
         extra_state |-> extra]

\* Mutant: the best loss is also written at the top level, as the first
\* format had it.
BuildStateDictWithBestLoss(args, m, c, o, b, optim_history, extra_state) ==
    LET hist  == IF optim_history.is_none THEN <<>> ELSE optim_history.value
        extra == IF extra_state.is_none THEN EmptyDict ELSE extra_state.value
    IN  [args |-> args,
         model |-> m,
         optimizer_history |-> hist \o << OptimEntry(c, o, b) >>,
         extra_state |-> extra,
         best_loss |-> b]

\* Mutant: the history is stored as it was given, without the new entry.
BuildStateDictNoEntry(args, m, c, o, b, optim_history, extra_state) ==
    LET hist  == IF optim_history.is_none THEN <<>> ELSE optim_history.value
        extra == IF extra_state.is_none THEN EmptyDict ELSE extra_state.value
    IN  [args |-> args,
         model |-> m,
         optimizer_history |-> hist,
         extra_state |-> extra]

\* the state_dict save_state builds; optim_history and extra_state are
\* optional arguments
BuildStateDict(args, m, c, o, b, optim_history, extra_state) ==
    LET hist  == IF optim_history.is_none THEN <<>> ELSE optim_history.value
        extra == IF extra_state.is_none THEN EmptyDict ELSE extra_state.value
    IN  [args |-> args,
         model |-> m,
         optimizer_history |-> hist \o << OptimEntry(c, o, b) >>,
         extra_state |-> extra]

\* A file that torch.save opened for writing and did not finish: it holds
\* no blob, and torch.load raises on it.
EmptyFile == [unreadable |-> TRUE]
Readable(blob) == "unreadable" \notin DOMAIN blob

\* The file system after torch_persistent_save(state_dict, filename) with
\* outcome r.  torch.save opens the file for writing, which empties it, and
\* then pickles into it.  torn says where the calls that raise do so: after
\* the file was opened (TRUE), or before (FALSE), when the file is as it was.
StoreIfWritten(dsk, filename, sd, r, torn) ==
    IF r.written
    THEN [q \in DOMAIN dsk \cup {filename} |-> IF q = filename THEN sd ELSE dsk[q]]
    ELSE IF torn
    THEN [q \in DOMAIN dsk \cup {filename} |-> IF q = filename THEN EmptyFile ELSE dsk[q]]
    ELSE dsk

\* what is stored at a path, None when the path does not exist
Stored(dsk, filename) == IF filename \in DOMAIN dsk THEN dsk[filename] ELSE None

----------------------------------------------------------------------------
(* load_state *)

\* The shared tail of the mutants of load_state: the file exists, entry is
\* the history entry consulted and match the outcome of the comparison.
LoadedWith(st, entry, match, o, b) ==
    [found |-> TRUE, raised |-> "none", model |-> st["model"],
     optimizer |-> IF match THEN entry.optimizer ELSE o,
     best |-> IF match THEN entry.best_loss ELSE b,
     extra_state |-> st["extra_state"], optim_history |-> st["optimizer_history"]]

NotFound(m, o, b) ==
    [found |-> FALSE, raised |-> "none", model |-> m, optimizer |-> o, best |-> b,
     extra_state |-> None, optim_history |-> <<>>]

\* torch.load raises on a file that holds no blob
LoadRaised(m, o, b) ==
    [found |-> TRUE, raised |-> "EOFError", model |-> m, optimizer |-> o, best |-> b,
     extra_state |-> None, optim_history |-> <<>>]

\* Mutant: optim_history[0] is consulted instead of optim_history[-1].
LoadStateFirstEntry(dsk, filename, m, c, o, b) ==
    IF filename \notin DOMAIN dsk
    THEN NotFound(m, o, b)
    ELSE IF ~Readable(dsk[filename])
    THEN LoadRaised(m, o, b)
    ELSE LET st == _upgrade_state_dict(dsk[filename])
             e  == st["optimizer_history"][1]
         IN  LoadedWith(st, e, e.criterion_name = c, o, b)

\* Mutant: the optimizer and the scheduler are loaded whatever the criterion.
LoadStateNoGuard(dsk, filename, m, c, o, b) ==
    IF filename \notin DOMAIN dsk
    THEN NotFound(m, o, b)
    ELSE IF ~Readable(dsk[filename])
    THEN LoadRaised(m, o, b)
    ELSE LET st == _upgrade_state_dict(dsk[filename])
             h  == st["optimizer_history"]
         IN  LoadedWith(st, h[Len(h)], TRUE, o, b)

\* Mutant: a missing file resets the scheduler's best loss.
LoadStateMissingResets(dsk, filename, m, c, o, b) ==
    IF filename \notin DOMAIN dsk
    THEN NotFound(m, o, 0)
    ELSE IF ~Readable(dsk[filename])
    THEN LoadRaised(m, o, b)
    ELSE LET st == _upgrade_state_dict(dsk[filename])
             h  == st["optimizer_history"]
             e  == h[Len(h)]
         IN  LoadedWith(st, e, e.criterion_name = c, o, b)

\* The outcome of load_state on file system dsk for a caller whose objects
\* hold m, o, b and whose criterion is named c.
load_state(dsk, filename, m, c, o, b) ==
    IF filename \notin DOMAIN dsk
    THEN [found |-> FALSE, raised |-> "none", model |-> m, optimizer |-> o, best |-> b,
          extra_state |-> None, optim_history |-> <<>>]
    ELSE IF ~Readable(dsk[filename])
    THEN [found |-> TRUE, raised |-> "EOFError", model |-> m, optimizer |-> o, best |-> b,
          extra_state |-> None, optim_history |-> <<>>]
    ELSE LET st   == _upgrade_state_dict(dsk[filename])
             hist == st["optimizer_history"]
         IN  IF Len(hist) = 0
             THEN [found |-> TRUE, raised |-> "IndexError", model |-> st["model"],
                   optimizer |-> o, best |-> b,
                   extra_state |-> None, optim_history |-> <<>>]
             ELSE LET last_optim == hist[Len(hist)]
                      match == last_optim.criterion_name = c
                  IN  [found |-> TRUE, raised |-> "none", model |-> st["model"],
                       optimizer |-> IF match THEN last_optim.optimizer ELSE o,
                       best |-> IF match THEN last_optim.best_loss ELSE b,
                       extra_state |-> st["extra_state"], optim_history |-> hist]

----------------------------------------------------------------------------
(* The checkpoint codec driven by one training process on TrainPath *)

\* failure patterns of the storage: fails[k] = the k-th torch.save raises
FailPatterns == [1..FailLen -> BOOLEAN]
\* the first k calls of torch.save raise, the later ones succeed
LeadingFails(k) == [i \in 1..FailLen |-> i <= k]

\* legacy checkpoints a training process may find at its path
LegacyV1 == [args |-> "archA", model |-> "w2", optimizer |-> "o2", best_loss |-> 12,
             epoch |-> 2, batch_offset |-> 5, val_loss |-> 22]
LegacyV2 == [args |-> "archA", model |-> "w2",
             optimizer_history |-> << OptimEntry(LabelSmoothedCrossEntropyCriterion, "o2", 12) >>,
             epoch |-> 2, batch_offset |-> 5, val_loss |-> 22]
InitDisks == {<<>>, TrainPath :> LegacyV1, TrainPath :> LegacyV2}

Init ==
    /\ disk \in InitDisks
    /\ model = "w1"
    /\ optimizer = "o1"
    /\ best = 11
    /\ criterion = CrossEntropyCriterion
    /\ chain = <<>>
    /\ chainOk = TRUE
    /\ stateDict = EmptyDict
    /\ last = [name |-> "none"]

\* save_state(TrainPath, args, model, criterion, optimizer, lr_scheduler,
\*            optim_history, extra_state), the objects being at point pt of
\* training with criterion c.
\* passBack: optim_history is the history the preceding load returned.
save_state(args, pt, c, passBack, extra_state, fails, torn) ==
    /\ passBack => /\ last.name = "load"
                   /\ last.raised = "none"
    \* torn tells of the calls that raise, and the first call is always made
    /\ torn => fails[1]
    /\ LET optim_history == IF passBack THEN Given(last.optim_history) ELSE Default
           sd    == BuildStateDict(args, pt.model, c, pt.optimizer, pt.best,
                                   optim_history, extra_state)
           r     == torch_persistent_save(fails)
       IN  /\ disk' = StoreIfWritten(disk, TrainPath, sd, r, torn)
           /\ model' = pt.model
           /\ optimizer' = pt.optimizer
           /\ best' = pt.best
           /\ criterion' = c
           /\ last' = [name |-> "save", path |-> TrainPath, fails |-> fails,
                       torn |-> torn, attempts |-> r.attempts, logged |-> r.logged,
                       written |-> r.written, raised |-> r.raised,
                       optim_history |-> optim_history, state_dict |-> sd,
                       before |-> Stored(disk, TrainPath)]
    /\ UNCHANGED stateDict

\* load_state(TrainPath, model, criterion, optimizer, lr_scheduler), the
\* objects holding pre before the call and the criterion being named c.
Load(pre, c) ==
    LET r == load_state(disk, TrainPath, pre.model, c, pre.optimizer, pre.best)
    IN  /\ model' = r.model
        /\ optimizer' = r.optimizer
        /\ best' = r.best
        /\ criterion' = c
        /\ last' = [name |-> "load", path |-> TrainPath, pre |-> pre,
                    found |-> r.found, raised |-> r.raised,
                    extra_state |-> r.extra_state, optim_history |-> r.optim_history,
                    prev |-> [name |-> last.name,
                              written |-> IF last.name = "save" THEN last.written ELSE FALSE,
                              objects |-> [model |-> model, optimizer |-> optimizer,
                                           best |-> best],
                              criterion |-> criterion]]
        /\ UNCHANGED <<disk, chain, chainOk, stateDict>>

\* the objects as the previous call left them
Objects == [model |-> model, optimizer |-> optimizer, best |-> best]

\* a save under a storage that fails its first k writes
SaveStep ==
    /\ \E args \in TrainArgs, pt \in TrainPoints, c \in Criterions, passBack \in BOOLEAN,
          extra_state \in {Default} \cup {Given(e) : e \in TrainExtras},
          k \in 0..Retries, torn \in BOOLEAN :
           /\ passBack => (last.name = "load" /\ Len(last.optim_history) <= MaxHist)
           /\ save_state(args, pt, c, passBack, extra_state, LeadingFails(k), torn)
    /\ UNCHANGED <<chain, chainOk>>

\* the first save of a run, under any behaviour of the storage
FirstSaveStep ==
    /\ \E args \in TrainArgs, pt \in TrainPoints, c \in Criterions, fails \in FailPatterns,
          torn \in BOOLEAN :
           save_state(args, pt, c, FALSE, Default, fails, torn)
    /\ UNCHANGED <<chain, chainOk>>

LoadStep ==
    \E pre \in TrainPoints \cup {Objects}, c \in Criterions : Load(pre, c)

Next == SaveStep \/ FirstSaveStep \/ LoadStep

Spec == Init /\ [][Next]_vars

----------------------------------------------------------------------------
(* A chain of saves on TrainPath: the first is given no history, each later *)
(* one the history that the load of the one before it returned.            *)

\* the first save of a chain
ChainFirstSave ==
    /\ chain = <<>>
    /\ \E args \in TrainArgs, pt \in TrainPoints, c \in Criterions, k \in {0, Retries},
          torn \in BOOLEAN :
           /\ save_state(args, pt, c, FALSE, Default, LeadingFails(k), torn)
           /\ chain' = << OptimEntry(c, pt.optimizer, pt.best) >>
           /\ chainOk' = (k < Retries)

\* the load of the save before
ChainLoad ==
    /\ last.name = "save"
    /\ chain # <<>>
    /\ \E c \in Criterions : Load(Objects, c)

\* a later save of the chain
ChainNextSave ==
    /\ last.name = "load"
    /\ chain # <<>>
    /\ Len(chain) < MaxChain
    /\ \E args \in TrainArgs, pt \in TrainPoints, c \in Criterions, k \in {0, Retries},
          torn \in BOOLEAN :
        /\ save_state(args, pt, c, TRUE, Default, LeadingFails(k), torn)
        /\ chain' = Append(chain, OptimEntry(c, pt.optimizer, pt.best))
        /\ chainOk' = (chainOk /\ k < Retries)

NextChain == ChainFirstSave \/ ChainLoad \/ ChainNextSave

SpecChain == Init /\ [][NextChain]_vars

\* the optimizer history stored at TrainPath, empty when there is none
StoredHistory ==
    IF TrainPath \in DOMAIN disk /\ "optimizer_history" \in DOMAIN disk[TrainPath]
    THEN disk[TrainPath]["optimizer_history"]
    ELSE <<>>

\* the history that was stored before the last save
HistoryBefore ==
    IF last.before # None /\ "optimizer_history" \in DOMAIN last.before
    THEN last.before["optimizer_history"]
    ELSE <<>>

\* the stored history is the entries of the chain's saves, in the order of
\* the saves, and the history stored before the last save is a prefix of it
ChainStored ==
    /\ StoredHistory = chain
    /\ (last.name = "save" /\ Len(chain) > 1)
         => HistoryBefore = SubSeq(StoredHistory, 1, Len(chain) - 1)

\* C2 as stated: after the N-th save of a chain the stored history has length
\* N, its k-th entry is the entry made by the k-th save, and the history
\* stored after save k is a prefix of the one stored after save k+1.
C2_HistoryOfAnyChain == chain # <<>> => ChainStored

\* C2 amended: the same, for a chain each of whose saves stored its snapshot.
C2_HistoryAppendOnly == (chain # <<>> /\ chainOk) => ChainStored

\* a chain of three saves at different points, all stored
C2_Witness ==
    /\ last.name = "save"
    /\ chainOk
    /\ Len(chain) = 3
    /\ chain[1] # chain[2]
    /\ chain[2] # chain[3]
    /\ Len(StoredHistory) = 3

----------------------------------------------------------------------------
(* _upgrade_state_dict applied, again and again, to a state dict of any of *)
(* the three formats                                                       *)

OptimEntries ==
    {OptimEntry(c, pt.optimizer, pt.best) : c \in Criterions, pt \in TrainPoints}
Histories == {<< e >> : e \in OptimEntries} \cup {<< e, f >> : e, f \in OptimEntries}

V1Snapshots ==
    {[args |-> a, model |-> w, optimizer |-> pt.optimizer, best_loss |-> pt.best,
      epoch |-> e.epoch, batch_offset |-> e.batch_offset, val_loss |-> e.val_loss] :
        a \in ArgsSet, w \in Weights, pt \in TrainPoints, e \in ExtraStates}
V2Snapshots ==
    {[args |-> a, model |-> w, optimizer_history |-> h,
      epoch |-> e.epoch, batch_offset |-> e.batch_offset, val_loss |-> e.val_loss] :
        a \in ArgsSet, w \in Weights, h \in Histories, e \in ExtraStates}
V3Snapshots ==
    {[args |-> a, model |-> w, optimizer_history |-> h, extra_state |-> e] :
        a \in ArgsSet, w \in Weights, h \in Histories, e \in ExtraStates \cup {EmptyDict}}

InitUpgrade ==
    /\ stateDict \in V1Snapshots \cup V2Snapshots \cup V3Snapshots
    /\ disk = <<>>
    /\ model = "w1"
    /\ optimizer = "o1"
    /\ best = 11
    /\ criterion = CrossEntropyCriterion
    /\ chain = <<>>
    /\ chainOk = TRUE
    /\ last = [name |-> "none"]

\* state = _upgrade_state_dict(state)
Upgrade ==
    /\ last.name = "upgrade" => last.count < MaxUpgrades
    /\ stateDict' = _upgrade_state_dict(stateDict)
    /\ last' = [name |-> "upgrade", arg |-> stateDict,
                count |-> IF last.name = "upgrade" THEN last.count + 1 ELSE 1]
    /\ UNCHANGED <<disk, model, optimizer, best, criterion, chain, chainOk>>

SpecUpgrade == InitUpgrade /\ [][Upgrade]_vars

LegacyTopLevel == {"optimizer", "best_loss", "epoch", "batch_offset", "val_loss"}
V3Fields == {"args", "model", "optimizer_history", "extra_state"}
IsV1(sd) == DOMAIN sd = {"args", "model"} \cup LegacyTopLevel
IsV3(sd) == DOMAIN sd = V3Fields

\* C3: a second application of the upgrade changes nothing, and neither does
\* any application to a state dict of the current format.
C3_UpgradeIdempotent ==
    /\ (last.name = "upgrade" /\ last.count >= 2) => stateDict = last.arg
    /\ (last.name = "upgrade" /\ IsV3(last.arg)) => stateDict = last.arg

\* the upgrade applied twice to a state dict of the first format
C3_Witness ==
    /\ last.name = "upgrade"
    /\ last.count = 2
    /\ IsV3(stateDict)
    /\ Len(stateDict["optimizer_history"]) = 1
    /\ stateDict["optimizer_history"][1].optimizer = "o2"

\* C4: the upgrade turns a state dict of the first format into one of the
\* current format: the history is the one entry made of the cross-entropy
\* criterion's name and the legacy optimizer and best_loss, extra_state holds
\* the legacy epoch, batch_offset and val_loss, and no legacy field is left
\* at the top level.
C4_LegacyUpgrade ==
    (last.name = "upgrade" /\ last.count = 1 /\ IsV1(last.arg))
    => /\ DOMAIN stateDict = V3Fields
       /\ DOMAIN stateDict \cap LegacyTopLevel = {}
       /\ stateDict["optimizer_history"] =
            << [criterion_name |-> CrossEntropyCriterion,
                optimizer |-> last.arg["optimizer"],
                best_loss |-> last.arg["best_loss"]] >>
       /\ stateDict["extra_state"] =
            [epoch |-> last.arg["epoch"],
             batch_offset |-> last.arg["batch_offset"],
             val_loss |-> last.arg["val_loss"]]
       /\ stateDict["model"] = last.arg["model"]
       /\ stateDict["args"] = last.arg["args"]

\* the first upgrade of a state dict of the first format
C4_Witness ==
    /\ last.name = "upgrade"
    /\ last.count = 1
    /\ IsV1(last.arg)
    /\ last.arg["best_loss"] = 12
    /\ last.arg["epoch"] = 2
    /\ "extra_state" \in DOMAIN stateDict

\* the fields that are not in both dicts or differ between them
Changed(before, after) ==
    {k \in DOMAIN before \cup DOMAIN after :
        \/ k \notin DOMAIN before
        \/ k \notin DOMAIN after
        \/ before[k] # after[k]}

\* the two dicts have the same of the fields, with the same values
SameOn(fields, sd, td) ==
    \A k \in fields :
        /\ (k \in DOMAIN sd) = (k \in DOMAIN td)
        /\ k \in DOMAIN sd \cap DOMAIN td => sd[k] = td[k]

HistoryFields == {"optimizer_history", "optimizer", "best_loss"}
ExtraFields == {"extra_state", "epoch", "batch_offset", "val_loss"}

\* C15: the two steps of the upgrade commute on a state dict of any of the
\* three formats, and each step reads and writes only fields that the other
\* leaves alone: the first the history, optimizer and best_loss, the second
\* the extra state, epoch, batch_offset and val_loss.
C15_StepsCommute ==
    last.name = "upgrade" =>
        /\ stateDict = AddOptimizerHistory(MoveExtraState(last.arg))
        /\ Changed(last.arg, AddOptimizerHistory(last.arg)) \subseteq HistoryFields
        /\ Changed(last.arg, MoveExtraState(last.arg)) \subseteq ExtraFields
        /\ HistoryFields \cap ExtraFields = {}
        /\ SameOn(HistoryFields, AddOptimizerHistory(last.arg),
                  AddOptimizerHistory(MoveExtraState(last.arg)))
        /\ SameOn(ExtraFields, MoveExtraState(last.arg),
                  MoveExtraState(AddOptimizerHistory(last.arg)))

\* the upgrade of a state dict of the first format, on which both steps act
C15_Witness ==
    /\ last.name = "upgrade"
    /\ last.count = 1
    /\ IsV1(last.arg)
    /\ Changed(last.arg, AddOptimizerHistory(last.arg)) = HistoryFields
    /\ Changed(last.arg, MoveExtraState(last.arg)) = ExtraFields
    /\ stateDict = AddOptimizerHistory(MoveExtraState(last.arg))

IsV2(sd) == DOMAIN sd = {"args", "model", "optimizer_history",
                         "epoch", "batch_offset", "val_loss"}

\* C16: the upgrade of a state dict of the second format leaves its
\* optimizer_history, model and args as they are, makes an extra_state of
\* exactly the epoch, batch_offset and val_loss with their values, and
\* removes these three from the top level.
C16_SecondFormatUpgrade ==
    (last.name = "upgrade" /\ last.count = 1 /\ IsV2(last.arg))
    => /\ DOMAIN stateDict = V3Fields
       /\ stateDict["optimizer_history"] = last.arg["optimizer_history"]
       /\ stateDict["model"] = last.arg["model"]
       /\ stateDict["args"] = last.arg["args"]
       /\ stateDict["extra_state"] =
            [epoch |-> last.arg["epoch"],
             batch_offset |-> last.arg["batch_offset"],
             val_loss |-> last.arg["val_loss"]]
       /\ {"epoch", "batch_offset", "val_loss"} \cap DOMAIN stateDict = {}

\* the first upgrade of a state dict of the second format, with a history
\* of two entries
C16_Witness ==
    /\ last.name = "upgrade"
    /\ last.count = 1
    /\ IsV2(last.arg)
    /\ Len(last.arg["optimizer_history"]) = 2
    /\ last.arg["epoch"] = 2
    /\ stateDict["extra_state"]["val_loss"] = 22
    /\ stateDict["optimizer_history"] = last.arg["optimizer_history"]

----------------------------------------------------------------------------
(* load_ensemble_for_inference *)

\* args.model of each args, and the model types that fairseq.models has
ArgsModel == [archA |-> "fconv", archB |-> "lstm", archGone |-> "nosuch"]
ModelTypes == {"fconv", "lstm"}

\* build_model(args, src_dict, dst_dict): the assertion that fairseq.models
\* has the model type of args, then a fresh model of that configuration
build_model(args) ==
    IF ArgsModel[args] \notin ModelTypes
    THEN [raised |-> "AssertionError"]
    ELSE [raised |-> "none", model |-> [args |-> args, weights |-> "w0"]]

\* model.load_state_dict(weights)
load_state_dict(mdl, weights) == [mdl EXCEPT !.weights = weights]

\* Mutant: a missing file is skipped instead of ending the load.
RECURSIVE LoadStatesSkipMissing(_, _, _, _)
LoadStatesSkipMissing(dsk, filenames, i, acc) ==
    IF i > Len(filenames)
    THEN acc
    ELSE IF filenames[i] \notin DOMAIN dsk
         THEN LoadStatesSkipMissing(dsk, filenames, i + 1,
                 [acc EXCEPT !.checked = Append(acc.checked, i)])
         ELSE LoadStatesSkipMissing(dsk, filenames, i + 1,
                 [raised  |-> "none",
                  checked |-> Append(acc.checked, i),
                  read    |-> Append(acc.read, i),
                  states  |-> Append(acc.states, dsk[filenames[i]])])

\* The first loop from index i on: checked and read list the indices whose
\* path os.path.exists was asked about and torch.load was given.
RECURSIVE LoadStates(_, _, _, _)
LoadStates(dsk, filenames, i, acc) ==
    IF i > Len(filenames)
    THEN acc
    ELSE IF filenames[i] \notin DOMAIN dsk
         THEN [acc EXCEPT !.raised = "IOError", !.checked = Append(acc.checked, i)]
         ELSE IF ~Readable(dsk[filenames[i]])
         THEN [acc EXCEPT !.raised = "EOFError", !.checked = Append(acc.checked, i),
                          !.read = Append(acc.read, i)]
         ELSE LoadStates(dsk, filenames, i + 1,
                 [raised  |-> "none",
                  checked |-> Append(acc.checked, i),
                  read    |-> Append(acc.read, i),
                  states  |-> Append(acc.states, dsk[filenames[i]])])

\* Mutant: each model is built from the args of its own snapshot.
RECURSIVE BuildEnsembleOwnArgs(_, _, _, _)
BuildEnsembleOwnArgs(args, states, i, ensemble) ==
    IF i > Len(states)
    THEN [raised |-> "none", ensemble |-> ensemble]
    ELSE LET built == build_model(states[i]["args"])
         IN  IF built.raised # "none"
             THEN [raised |-> built.raised, ensemble |-> ensemble]
             ELSE BuildEnsembleOwnArgs(args, states, i + 1,
                     Append(ensemble, load_state_dict(built.model, states[i]["model"])))

\* The second loop from index i on; ensemble holds the models built so far
\* when build_model raises.
RECURSIVE BuildEnsemble(_, _, _, _)
BuildEnsemble(args, states, i, ensemble) ==
    IF i > Len(states)
    THEN [raised |-> "none", ensemble |-> ensemble]
    ELSE LET built == build_model(args)
         IN  IF built.raised # "none"
             THEN [raised |-> built.raised, ensemble |-> ensemble]
             ELSE BuildEnsemble(args, states, i + 1,
                     Append(ensemble, load_state_dict(built.model, states[i]["model"])))

\* The outcome of load_ensemble_for_inference(filenames, src_dict, dst_dict):
\* args_of lists the indices of the snapshots whose args were read, built
\* counts the models constructed.
load_ensemble_for_inference(dsk, filenames) ==
    LET r == LoadStates(dsk, filenames, 1,
                        [raised |-> "none", checked |-> <<>>, read |-> <<>>,
                         states |-> <<>>])
    IN  IF r.raised # "none"
        THEN [raised |-> r.raised, checked |-> r.checked, read |-> r.read,
              args_of |-> <<>>, built |-> 0, returned |-> FALSE, ensemble |-> <<>>]
        ELSE IF Len(r.states) = 0
        THEN [raised |-> "IndexError", checked |-> r.checked, read |-> r.read,
              args_of |-> <<>>, built |-> 0, returned |-> FALSE, ensemble |-> <<>>]
        ELSE LET e == BuildEnsemble(r.states[1]["args"], r.states, 1, <<>>)
             IN  IF e.raised # "none"
                 THEN [raised |-> e.raised, checked |-> r.checked, read |-> r.read,
                       args_of |-> << 1 >>, built |-> Len(e.ensemble),
                       returned |-> FALSE, ensemble |-> <<>>]
                 ELSE [raised |-> "none", checked |-> r.checked, read |-> r.read,
                       args_of |-> << 1 >>, built |-> Len(e.ensemble),
                       returned |-> TRUE, ensemble |-> e.ensemble]

\* checkpoints of either configuration, in the current and in the first
\* format, and one whose args name a model type that fairseq.models lacks
EnsembleFiles ==
    {[args |-> a, model |-> w,
      optimizer_history |-> << OptimEntry(CrossEntropyCriterion, "o1", 11) >>,
      extra_state |-> EmptyDict] : a \in ArgsSet, w \in Weights}
    \cup {[args |-> "archGone", model |-> "w1",
           optimizer_history |-> << OptimEntry(CrossEntropyCriterion, "o1", 11) >>,
           extra_state |-> EmptyDict]}
    \cup {[args |-> "archB", model |-> "w2", optimizer |-> "o2", best_loss |-> 12,
           epoch |-> 2, batch_offset |-> 5, val_loss |-> 22]}

\* lists of at most MaxEnsemble file names
FileLists == UNION {[1..n -> Paths] : n \in 0..MaxEnsemble}

InitEnsemble ==
    /\ disk \in UNION {[S -> EnsembleFiles] : S \in SUBSET Paths}
    /\ model = "w1"
    /\ optimizer = "o1"
    /\ best = 11
    /\ criterion = CrossEntropyCriterion
    /\ chain = <<>>
    /\ chainOk = TRUE
    /\ stateDict = EmptyDict
    /\ last = [name |-> "none"]

LoadEnsemble ==
    \E filenames \in FileLists :
        LET r == load_ensemble_for_inference(disk, filenames)
        IN  /\ last' = [name |-> "ensemble", filenames |-> filenames,
                        raised |-> r.raised, checked |-> r.checked, read |-> r.read,
                        args_of |-> r.args_of, built |-> r.built,
                        returned |-> r.returned, ensemble |-> r.ensemble]
            /\ UNCHANGED <<disk, model, optimizer, best, criterion, chain, chainOk,
                           stateDict>>

SpecEnsemble == InitEnsemble /\ [][LoadEnsemble]_vars

\* the indices of the file names that do not exist
Missing == {i \in 1..Len(last.filenames) : last.filenames[i] \notin DOMAIN disk}

\* C9: when the path at index i is the first that does not exist, the load
\* fails with the file-not-found error after asking about the paths 1..i in
\* order and reading the paths 1..i-1; it constructs no model and returns no
\* ensemble.
C9_EnsembleFailsFast ==
    (last.name = "ensemble" /\ Missing # {})
    => LET i == CHOOSE j \in Missing : \A k \in Missing : j <= k
       IN  /\ last.raised = "IOError"
           /\ last.checked = [j \in 1..i |-> j]
           /\ last.read = [j \in 1..(i - 1) |-> j]
           /\ last.built = 0
           /\ ~last.returned
           /\ last.ensemble = <<>>

\* three file names of which the second alone does not exist
C9_Witness ==
    /\ last.name = "ensemble"
    /\ Len(last.filenames) = 3
    /\ Missing = {2}
    /\ last.raised = "IOError"
    /\ last.read = << 1 >>

\* the ensemble of the last load: one model for each path, in the order of
\* the paths, the k-th with the weights of the k-th snapshot and every one
\* with the configuration of the first snapshot, the only one read
EnsembleOfFirstArgs ==
    /\ last.raised = "none"
    /\ last.returned
    /\ Len(last.ensemble) = Len(last.filenames)
    /\ last.built = Len(last.filenames)
    /\ last.args_of = << 1 >>
    /\ \A k \in 1..Len(last.filenames) :
         /\ last.ensemble[k].weights = disk[last.filenames[k]]["model"]
         /\ last.ensemble[k].args = disk[last.filenames[1]]["args"]

\* C10 as stated: for a non-empty list of existing paths the load returns
\* one model for each path, in the order of the paths; the k-th model holds
\* the weights of the k-th snapshot and every model has the configuration of
\* the first snapshot, the only one whose configuration is read.
C10_EnsembleShapeAnyArgs ==
    (last.name = "ensemble" /\ Len(last.filenames) > 0 /\ Missing = {})
    => EnsembleOfFirstArgs

\* C10 amended: the same when the configuration of the first snapshot names
\* a model type that fairseq.models has, whatever the later configurations
\* name; when it names none, the load raises the assertion error of
\* build_model, has built no model and returns nothing.
C10_EnsembleShape ==
    (last.name = "ensemble" /\ Len(last.filenames) > 0 /\ Missing = {})
    => IF ArgsModel[disk[last.filenames[1]]["args"]] \in ModelTypes
       THEN EnsembleOfFirstArgs
       ELSE /\ last.raised = "AssertionError"
            /\ last.built = 0
            /\ ~last.returned
            /\ last.args_of = << 1 >>

\* three snapshots, the second with other weights than the first and with a
\* configuration that names no model type of fairseq.models
C10_Witness ==
    /\ last.name = "ensemble"
    /\ Len(last.filenames) = 3
    /\ Missing = {}
    /\ last.returned
    /\ disk[last.filenames[2]]["args"] = "archGone"
    /\ disk[last.filenames[1]]["model"] # disk[last.filenames[2]]["model"]
    /\ last.ensemble[2].args = disk[last.filenames[1]]["args"]

----------------------------------------------------------------------------
(* parse_embedding: the embedding text file of a path is a sequence of     *)
(* lines, a line a sequence of characters that ends with a line feed.      *)

\* most vector rows of an embedding file
MaxRows == 2

EmbedPath == "p1"
DigitChars == <<"0", "1", "2", "3", "4", "5", "6", "7", "8", "9">>
Whitespace == {" ", "\n"}

\* the words and the vectors that the rows of a file are written from
Tokens == {<<"a">>, <<"a", "b">>}
Numbers == {1, 12}
Vectors == {<< x >> : x \in Numbers} \cup {<< x, y >> : x, y \in Numbers}
\* a row: the word, the vector, and the number of spaces between two numbers
Rows == [token : Tokens, vec : Vectors, gap : {1, 2}]
RowLists == UNION {[1..n -> Rows] : n \in 0..MaxRows}
\* first lines: the sizes, a line that reads as a row, a line of one word
Headers == {<<"2", " ", "2", "\n">>, <<"b", " ", "1", "\n">>, <<"b", "\n">>}
EmbedFiles == [header : Headers, rows : RowLists]

\* the decimal digits of a number
RECURSIVE Decimal(_)
Decimal(n) ==
    IF n < 10 THEN << DigitChars[n + 1] >>
    ELSE Decimal(n \div 10) \o << DigitChars[(n % 10) + 1] >>

RECURSIVE Payload(_, _)
Payload(vec, gap) ==
    IF Len(vec) = 1 THEN Decimal(vec[1])
    ELSE Decimal(vec[1]) \o [i \in 1..gap |-> " "] \o Payload(Tail(vec), gap)

\* the line of a row: the word, one space, the numbers
RowLine(row) == row.token \o <<" ">> \o Payload(row.vec, row.gap) \o <<"\n">>

\* the lines of a file
FileLines(file) == << file.header >> \o [i \in 1..Len(file.rows) |-> RowLine(file.rows[i])]

\* line.split(' ', 1): at most one split, at the first space
Split(line) ==
    LET spaces == {i \in 1..Len(line) : line[i] = " "}
    IN  IF spaces = {} THEN << line >>
        ELSE LET i == CHOOSE j \in spaces : \A k \in spaces : j <= k
             IN  << SubSeq(line, 1, i - 1), SubSeq(line, i + 1, Len(line)) >>

DigitValue(ch) == CHOOSE d \in 0..9 : DigitChars[d + 1] = ch

\* np.fromstring(vec, sep=' '): the numbers of the text, which white space
\* separates; cur is the number being read, -1 between two numbers
RECURSIVE FromStringAt(_, _, _, _)
FromStringAt(vec, i, cur, acc) ==
    LET done == IF cur < 0 THEN acc ELSE Append(acc, cur)
    IN  IF i > Len(vec) THEN done
        ELSE IF vec[i] \in Whitespace THEN FromStringAt(vec, i + 1, -1, done)
        ELSE IF \E d \in 0..9 : DigitChars[d + 1] = vec[i]
             THEN FromStringAt(vec, i + 1,
                               (IF cur < 0 THEN 0 ELSE cur) * 10 + DigitValue(vec[i]), acc)
        ELSE done

FromString(vec) == FromStringAt(vec, 1, -1, <<>>)

\* embedd_dict[word] = value
SetItem(d, word, value) ==
    [k \in DOMAIN d \cup {word} |-> IF k = word THEN value ELSE d[k]]

\* the loop over the lines; i counts from 1, so line 1 is the one skipped
RECURSIVE ParseLoop(_, _, _, _)
ParseLoop(lines, i, embedd_dict, word) ==
    IF i > Len(lines)
    THEN [raised |-> "none", embedd_dict |-> embedd_dict, word |-> word]
    ELSE IF i = 1 THEN ParseLoop(lines, i + 1, embedd_dict, word)
    ELSE LET parts == Split(lines[i])
         IN  IF Len(parts) # 2
             THEN [raised |-> "ValueError", embedd_dict |-> embedd_dict, word |-> word]
             ELSE ParseLoop(lines, i + 1,
                            SetItem(embedd_dict, parts[1], FromString(parts[2])),
                            Given(parts[1]))

\* Mutant: the first line is read as a row ("if i == 0: continue" is missing).
ParseEmbeddingNoSkip(lines) ==
    LET loop == ParseLoop(<< <<>> >> \o lines, 1, EmptyDict, Default)
    IN  IF loop.raised # "none"
        THEN [raised |-> loop.raised, table |-> EmptyDict, printed |-> {}]
        ELSE IF loop.word.is_none
        THEN [raised |-> "KeyError", table |-> EmptyDict, printed |-> {}]
        ELSE LET embedd_dim == Len(loop.embedd_dict[loop.word.value])
             IN  [raised |-> "none",
                  table |-> loop.embedd_dict,
                  printed |-> {k \in DOMAIN loop.embedd_dict :
                                  Len(loop.embedd_dict[k]) # embedd_dim}]

\* parse_embedding: table is the dict returned, printed the keys for which
\* the two lengths are printed; word is None (Default) until a row is read
parse_embedding(lines) ==
    LET loop == ParseLoop(lines, 1, EmptyDict, Default)
    IN  IF loop.raised # "none"
        THEN [raised |-> loop.raised, table |-> EmptyDict, printed |-> {}]
        ELSE IF loop.word.is_none
        THEN [raised |-> "KeyError", table |-> EmptyDict, printed |-> {}]
        ELSE LET embedd_dim == Len(loop.embedd_dict[loop.word.value])
             IN  [raised |-> "none",
                  table |-> loop.embedd_dict,
                  printed |-> {k \in DOMAIN loop.embedd_dict :
                                  Len(loop.embedd_dict[k]) # embedd_dim}]

InitParse ==
    /\ disk \in {[p \in {EmbedPath} |-> file] : file \in EmbedFiles}
    /\ model = "w1"
    /\ optimizer = "o1"
    /\ best = 11
    /\ criterion = CrossEntropyCriterion
    /\ chain = <<>>
    /\ chainOk = TRUE
    /\ stateDict = EmptyDict
    /\ last = [name |-> "none"]

\* a call of parse_embedding(EmbedPath)
ParseEmbedding ==
    /\ last.name = "none"
    /\ LET r == parse_embedding(FileLines(disk[EmbedPath]))
       IN  last' = [name |-> "parse", header |-> disk[EmbedPath].header,
                    rows |-> disk[EmbedPath].rows,
                    raised |-> r.raised, table |-> r.table, printed |-> r.printed]
    /\ UNCHANGED <<disk, model, optimizer, best, criterion, chain, chainOk, stateDict>>

SpecParse == InitParse /\ [][ParseEmbedding]_vars

----------------------------------------------------------------------------
(* load_embedding: stateDict is the table in the caller's hands, model the *)
(* embedding objects, each with the rows of its weight.data.               *)

\* longest vocabulary
MaxVocab == 2

\* the words of a vocabulary; the last is in no table
VocabTokens == Tokens \cup {<<"b">>}
Vocabs == UNION {[1..n -> VocabTokens] : n \in 0..MaxVocab}
\* tables whose vectors have the length of a row of the matrix
SpliceVectors == {<<1, 12>>, <<12, 1>>}
Tables == UNION {[ks -> SpliceVectors] : ks \in SUBSET Tokens}
\* the rows a caller initialized, one more than the longest vocabulary
InitRows == {<<0, 0>>, <<7, 7>>}
Matrices == [1..(MaxVocab + 1) -> InitRows]
Embeddings == {"emb1", "emb2"}

\* torch.tensor(value): the numbers of the array, assigned to a row of the
\* same length
Tensor(value) == value

\* the loop over range(len(vocab)); the rows are counted from 1
RECURSIVE SpliceLoop(_, _, _, _)
SpliceLoop(embed_dict, vocab, idx, weight) ==
    IF idx > Len(vocab) THEN weight
    ELSE LET token == vocab[idx]
         IN  SpliceLoop(embed_dict, vocab, idx + 1,
                        IF token \in DOMAIN embed_dict
                        THEN [weight EXCEPT ![idx] = Tensor(embed_dict[token])]
                        ELSE weight)

\* Mutant: the row after the index of the word is assigned.
SplicedRowsShifted(embed_dict, vocab, weight) ==
    [idx \in 1..Len(weight) |->
        IF idx > 1 /\ idx - 1 <= Len(vocab) /\ vocab[idx - 1] \in DOMAIN embed_dict
        THEN Tensor(embed_dict[vocab[idx - 1]])
        ELSE weight[idx]]

\* the rows of embedding.weight.data after load_embedding
SplicedRows(embed_dict, vocab, weight) == SpliceLoop(embed_dict, vocab, 1, weight)

InitSplice ==
    /\ disk = EmptyDict
    /\ model \in {[e \in Embeddings |-> IF e = "emb1" THEN w ELSE [i \in DOMAIN w |-> <<7, 0>>]] :
                     w \in Matrices}
    /\ optimizer = "o1"
    /\ best = 11
    /\ criterion = CrossEntropyCriterion
    /\ chain = <<>>
    /\ chainOk = TRUE
    /\ stateDict \in Tables
    /\ last = [name |-> "none"]

\* load_embedding(embed_dict, vocab, embedding): the rows are assigned in
\* place and the object given is the one returned
load_embedding(embed_dict, vocab, embedding) ==
    /\ model' = [model EXCEPT ![embedding] = SplicedRows(embed_dict, vocab, model[embedding])]
    /\ last' = [name |-> "splice", vocab |-> vocab, embedding |-> embedding,
                returned |-> embedding, before |-> model]
    /\ UNCHANGED <<disk, optimizer, best, criterion, chain, chainOk, stateDict>>

LoadEmbedding ==
    /\ last.name = "none"
    /\ \E vocab \in Vocabs, embedding \in Embeddings :
           load_embedding(stateDict, vocab, embedding)

SpecSplice == InitSplice /\ [][LoadEmbedding]_vars

----------------------------------------------------------------------------
(* load_state when model.load_state_dict may raise.  What the model holds  *)
(* after a call that raised is not fixed by this module: the weights of    *)
(* before the call, or some of the parameters of the file.                 *)

\* outcomes of model.load_state_dict(state['model'])
ImportOutcomes == [raises : BOOLEAN, torn : BOOLEAN]

\* Mutant: the optimizer and the best loss are restored before the weights
\* are imported.
LoadStateOptimizerFirst(dsk, filename, m, c, o, b, imp) ==
    LET r == load_state(dsk, filename, m, c, o, b)
    IN  IF ~r.found \/ r.raised = "EOFError"
        THEN [found |-> r.found, raised |-> r.raised, model |-> r.model,
              optimizer |-> r.optimizer, best |-> r.best,
              extra_state |-> r.extra_state, optim_history |-> r.optim_history,
              calls |-> IF r.found THEN << "os.path.exists", "torch.load" >>
                        ELSE << "os.path.exists" >>]
        ELSE [found |-> TRUE,
              raised |-> IF r.raised = "none" /\ imp.raises THEN "RuntimeError" ELSE r.raised,
              model |-> IF r.raised # "none" THEN m
                        ELSE IF ~imp.raises THEN r.model
                        ELSE IF imp.torn THEN "torn" ELSE m,
              optimizer |-> r.optimizer, best |-> r.best,
              extra_state |-> IF imp.raises THEN None ELSE r.extra_state,
              optim_history |-> IF imp.raises THEN <<>> ELSE r.optim_history,
              calls |-> << "os.path.exists", "torch.load", "_upgrade_state_dict",
                           "optim_history[-1]" >>
                        \o (IF r.raised = "none" /\ r.optimizer # o
                            THEN << "optimizer.load_state_dict", "lr_scheduler.best" >>
                            ELSE <<>>)
                        \o (IF r.raised = "none" THEN << "model.load_state_dict" >> ELSE <<>>)]

\* The outcome of load_state with outcome imp of model.load_state_dict, and
\* the calls it made, in their order.  The weights are imported (line 103)
\* before the history is read (lines 106-107); a call that raises ends
\* load_state with that error, and so does torch.load on a file without blob.
LoadStateImport(dsk, filename, m, c, o, b, imp) ==
    LET r == load_state(dsk, filename, m, c, o, b)
        opened == << "os.path.exists", "torch.load", "_upgrade_state_dict",
                     "model.load_state_dict" >>
    IN  IF ~r.found \/ r.raised = "EOFError"
        THEN [found |-> r.found, raised |-> r.raised, model |-> r.model,
              optimizer |-> r.optimizer, best |-> r.best,
              extra_state |-> r.extra_state, optim_history |-> r.optim_history,
              calls |-> IF r.found THEN << "os.path.exists", "torch.load" >>
                        ELSE << "os.path.exists" >>]
        ELSE IF imp.raises
        THEN [found |-> TRUE, raised |-> "RuntimeError",
              model |-> IF imp.torn THEN "torn" ELSE m,
              optimizer |-> o, best |-> b,
              extra_state |-> None, optim_history |-> <<>>,
              calls |-> opened]
        ELSE [found |-> TRUE, raised |-> r.raised, model |-> r.model,
              optimizer |-> r.optimizer, best |-> r.best,
              extra_state |-> r.extra_state, optim_history |-> r.optim_history,
              calls |-> opened \o << "optim_history[-1]" >>
                        \o (IF r.raised = "none"
                               /\ _upgrade_state_dict(dsk[filename])["optimizer_history"]
                                    [Len(r.optim_history)].criterion_name = c
                            THEN << "optimizer.load_state_dict", "lr_scheduler.best" >>
                            ELSE <<>>)]

\* load_state(TrainPath, model, criterion, optimizer, lr_scheduler) with
\* outcome imp of the import, the objects holding pre before the call
LoadImport(pre, c, imp) ==
    LET r == LoadStateImport(disk, TrainPath, pre.model, c, pre.optimizer, pre.best, imp)
    IN  /\ model' = r.model
        /\ optimizer' = r.optimizer
        /\ best' = r.best
        /\ criterion' = c
        /\ last' = [name |-> "load", path |-> TrainPath, pre |-> pre,
                    found |-> r.found, raised |-> r.raised,
                    extra_state |-> r.extra_state, optim_history |-> r.optim_history,
                    import_raises |-> r.raised = "RuntimeError", calls |-> r.calls]
        /\ UNCHANGED <<disk, chain, chainOk, stateDict>>

ImportLoadStep ==
    \E pre \in TrainPoints, c \in Criterions, imp \in ImportOutcomes : LoadImport(pre, c, imp)

NextImport == FirstSaveStep \/ ImportLoadStep

SpecImport == Init /\ [][NextImport]_vars

----------------------------------------------------------------------------
(* save_state called again and again with one list: chain is the list      *)
(* object that the caller passes as optim_history.                         *)

\* number of saves that are given the same list
MaxResaves == 2

\* Mutant: the entry is appended to the caller's list (optim_history += ...).
CallerHistoryAppended(optim_history, entry) == Append(optim_history, entry)

\* the caller's list after save_state: optim_history + [entry] makes a new
\* list and no statement assigns to the one given
CallerHistoryAfter(optim_history, entry) == optim_history

InitResave ==
    /\ disk \in InitDisks
    /\ model = "w1"
    /\ optimizer = "o1"
    /\ best = 11
    /\ criterion = CrossEntropyCriterion
    /\ chain \in {<<>>} \cup Histories
    /\ chainOk = TRUE
    /\ stateDict = EmptyDict
    /\ last = [name |-> "none"]

\* save_state(TrainPath, args, model, criterion, optimizer, lr_scheduler,
\*            optim_history), optim_history being the caller's list
SaveWithHistory(args, pt, c, fails, torn) ==
    LET sd == BuildStateDict(args, pt.model, c, pt.optimizer, pt.best,
                             Given(chain), Default)
        r  == torch_persistent_save(fails)
    IN  /\ torn => fails[1]
        /\ disk' = StoreIfWritten(disk, TrainPath, sd, r, torn)
        /\ model' = pt.model
        /\ optimizer' = pt.optimizer
        /\ best' = pt.best
        /\ criterion' = c
        /\ chain' = CallerHistoryAfter(chain, OptimEntry(c, pt.optimizer, pt.best))
        /\ last' = [name |-> "save", path |-> TrainPath, fails |-> fails,
                    torn |-> torn, written |-> r.written, state_dict |-> sd,
                    given |-> chain,
                    first_given |-> IF last.name = "save" THEN last.first_given ELSE chain,
                    calls |-> IF last.name = "save" THEN last.calls + 1 ELSE 1]
        /\ UNCHANGED <<chainOk, stateDict>>

Resave ==
    /\ last.name = "save" => last.calls < MaxResaves
    /\ \E args \in TrainArgs, pt \in TrainPoints, c \in Criterions, k \in {0, Retries},
          torn \in BOOLEAN :
           SaveWithHistory(args, pt, c, LeadingFails(k), torn)

SpecResave == InitResave /\ [][Resave]_vars

----------------------------------------------------------------------------
(* Properties of the codec, checked under Spec *)

\* the first three calls of torch.save all raise
AllThreeFail(fails) == fails[1] /\ fails[2] /\ fails[3]

\* the file at TrainPath as load_state sees it
Upgraded == _upgrade_state_dict(disk[TrainPath])

\* C1 as stated: a load that directly follows a save, by the same objects
\* with the same criterion, leaves the weights, the optimizer state and the
\* best loss equal to those that were saved.
C1_RoundTripAnySave ==
    (/\ last.name = "load"
     /\ last.prev.name = "save"
     /\ last.pre = last.prev.objects
     /\ criterion = last.prev.criterion)
    => /\ model = last.prev.objects.model
       /\ optimizer = last.prev.objects.optimizer
       /\ best = last.prev.objects.best

\* C1 amended: a load that directly follows a save whose write succeeded,
\* with the same criterion, leaves the weights, the optimizer state and the
\* best loss equal to those that were saved, whatever the objects held
\* before the load.
C1_RoundTrip ==
    (/\ last.name = "load"
     /\ last.prev.name = "save"
     /\ last.prev.written
     /\ criterion = last.prev.criterion)
    => /\ last.raised = "none"
       /\ model = last.prev.objects.model
       /\ optimizer = last.prev.objects.optimizer
       /\ best = last.prev.objects.best

\* a round trip through a history of two entries into objects that held
\* something else
C1_Witness ==
    /\ last.name = "load"
    /\ last.prev.name = "save"
    /\ last.prev.written
    /\ criterion = last.prev.criterion
    /\ Len(last.optim_history) >= 2
    /\ last.optim_history[1].optimizer # optimizer
    /\ last.pre.model # model
    /\ last.pre.optimizer # optimizer

\* C5: a load that finds a snapshot loads its weights and returns its extra
\* state and its whole history; the optimizer state and the best loss keep
\* their values of before the call when the last history entry names another
\* criterion than the current one, and take the last entry's values when it
\* names the same.
C5_CriterionGuard ==
    (last.name = "load" /\ TrainPath \in DOMAIN disk /\ Readable(disk[TrainPath]))
    => LET h == Upgraded["optimizer_history"]
           e == h[Len(h)]
       IN  /\ last.found
           /\ model = Upgraded["model"]
           /\ last.extra_state = Upgraded["extra_state"]
           /\ last.optim_history = h
           /\ e.criterion_name # criterion
                => (optimizer = last.pre.optimizer /\ best = last.pre.best)
           /\ e.criterion_name = criterion
                => (optimizer = e.optimizer /\ best = e.best_loss)

\* a load under another criterion than the snapshot's, the sentinel values of
\* the optimizer and the scheduler differing from the snapshot's
C5_Witness ==
    /\ last.name = "load"
    /\ TrainPath \in DOMAIN disk
    /\ Readable(disk[TrainPath])
    /\ LET h == Upgraded["optimizer_history"]
           e == h[Len(h)]
       IN  /\ e.criterion_name # criterion
           /\ e.optimizer # last.pre.optimizer
           /\ e.best_loss # last.pre.best
           /\ optimizer = last.pre.optimizer
           /\ model # last.pre.model

\* C6: a save makes at most 3 write attempts, none after the first that
\* succeeds, never raises, and logs the error exactly when its 3 attempts all
\* failed.
C6_BoundedRetry ==
    last.name = "save"
    => LET ok == {i \in 1..3 : ~last.fails[i]}
       IN  /\ last.attempts <= 3
           /\ ok # {} => (last.attempts \in ok /\ \A i \in ok : last.attempts <= i)
           /\ ok = {} => last.attempts = 3
           /\ ~last.raised
           /\ last.logged = (IF ok = {} THEN 1 ELSE 0)
           /\ last.written <=> ok # {}

\* two failures followed by a success: three attempts, nothing logged
C6_Witness ==
    /\ last.name = "save"
    /\ last.fails[1] /\ last.fails[2] /\ ~last.fails[3] /\ last.fails[4]
    /\ last.attempts = 3
    /\ last.written
    /\ last.logged = 0

\* C7: a save whose 3 write attempts all fail returns normally and leaves at
\* its path what was stored there before, so that a load returns what it
\* would have returned before the save.
C7_FailedSaveKeepsCheckpoint ==
    (last.name = "save" /\ AllThreeFail(last.fails))
    => /\ ~last.raised
       /\ Stored(disk, TrainPath) = last.before
       /\ last.before = None <=> TrainPath \notin DOMAIN disk
       /\ \A pre \in TrainPoints, c \in Criterions :
            LET now  == load_state(disk, TrainPath, pre.model, c, pre.optimizer, pre.best)
                then == IF last.before = None
                        THEN load_state(<<>>, TrainPath, pre.model, c,
                                       pre.optimizer, pre.best)
                        ELSE load_state(TrainPath :> last.before, TrainPath, pre.model, c,
                                       pre.optimizer, pre.best)
            IN  now = then

\* C8: a load that finds no file at its path raises nothing, returns None and
\* the empty history, and leaves the weights, the optimizer state and the best
\* loss as they were.
C8_MissingCheckpoint ==
    (last.name = "load" /\ TrainPath \notin DOMAIN disk)
    => /\ ~last.found
       /\ last.raised = "none"
       /\ last.extra_state = None
       /\ last.optim_history = <<>>
       /\ model = last.pre.model
       /\ optimizer = last.pre.optimizer
       /\ best = last.pre.best

\* a load of a missing file by objects that are past their initial values
C8_Witness ==
    /\ last.name = "load"
    /\ TrainPath \notin DOMAIN disk
    /\ ~last.found
    /\ last.pre.model = "w2"
    /\ best = 12

----------------------------------------------------------------------------
(* Properties of parse_embedding, checked under SpecParse *)

\* the vector of the last row with word k
LastVector(rows, k) ==
    LET i == CHOOSE j \in 1..Len(rows) :
                 /\ rows[j].token = k
                 /\ \A m \in (j + 1)..Len(rows) : rows[m].token # k
    IN  rows[i].vec

\* one key for each word of the rows, its vector that of the word's last row
TableOfRows(rows) ==
    [k \in {rows[i].token : i \in 1..Len(rows)} |-> LastVector(rows, k)]

\* C11: parse_embedding skips the first line whatever it holds; of every
\* later line it takes the text before the first white space as the word and
\* the numbers after it, in their order, as the vector of that word.  The
\* table returned for a file with vector rows has one key for each word of
\* lines 2..N and no key from line 1.
C11_ParseTable ==
    (last.name = "parse" /\ last.rows # <<>>) =>
        /\ last.raised = "none"
        /\ last.table = TableOfRows(last.rows)
        /\ Split(last.header)[1] \notin DOMAIN last.table

\* a first line that reads as a row, then two rows of different words, the
\* second with a word of two letters and two numbers two spaces apart
C11_Witness ==
    /\ last.name = "parse"
    /\ last.header = <<"b", " ", "1", "\n">>
    /\ Len(last.rows) = 2
    /\ last.rows[1].token = <<"a">>
    /\ last.rows[2] = [token |-> <<"a", "b">>, vec |-> <<12, 1>>, gap |-> 2]
    /\ DOMAIN last.table = {<<"a">>, <<"a", "b">>}
    /\ last.table[<<"a", "b">>] = <<12, 1>>

----------------------------------------------------------------------------
(* Properties of load_embedding, checked under SpecSplice *)

\* C12: after load_embedding, row i of the matrix is table[t] when the word
\* t at index i of the vocabulary is a key of the table and is the row of
\* before the call when it is not; the rows past the vocabulary are those of
\* before the call; the object returned is the one that was passed in.
C12_SpliceFrame ==
    last.name = "splice" =>
        LET weight == model[last.embedding]
            before == last.before[last.embedding]
        IN  /\ DOMAIN weight = DOMAIN before
            /\ \A i \in 1..Len(last.vocab) :
                   weight[i] = IF last.vocab[i] \in DOMAIN stateDict
                               THEN stateDict[last.vocab[i]]
                               ELSE before[i]
            /\ \A i \in (Len(last.vocab) + 1)..Len(before) : weight[i] = before[i]
            /\ last.returned = last.embedding
            /\ \A e \in Embeddings \ {last.embedding} : model[e] = last.before[e]

\* a vocabulary of a word of the table and a word that is not in it, and a
\* matrix of three rows: the first row is overwritten, the others are kept
C12_Witness ==
    /\ last.name = "splice"
    /\ last.embedding = "emb1"
    /\ Len(last.vocab) = 2
    /\ last.vocab[1] \in DOMAIN stateDict
    /\ last.vocab[2] \notin DOMAIN stateDict
    /\ model["emb1"][1] = stateDict[last.vocab[1]]
    /\ model["emb1"][1] # last.before["emb1"][1]
    /\ model["emb1"][2] = last.before["emb1"][2]
    /\ model["emb1"][3] = last.before["emb1"][3]


\* the words of the rows whose vector is not as long as that of the first row
OffFirstRow(rows) ==
    {rows[i].token : i \in {j \in 1..Len(rows) : Len(rows[j].vec) # Len(rows[1].vec)}}

\* C13: parse_embedding reports a mismatch for exactly the rows whose vector
\* is not as long as that of the first row after the header, and keeps these
\* rows in the table; when every row is as long as the first, it reports
\* nothing.
C13_MismatchAgainstFirstRow ==
    (last.name = "parse" /\ last.rows # <<>>) =>
        /\ last.printed = OffFirstRow(last.rows)
        /\ OffFirstRow(last.rows) \subseteq DOMAIN last.table

\* C20: for a file of the header line alone parse_embedding raises nothing
\* and returns the empty table.
C20_HeaderOnlyParse ==
    (last.name = "parse" /\ last.rows = <<>>) =>
        /\ last.raised = "none"
        /\ last.table = EmptyDict

----------------------------------------------------------------------------
(* Properties of the state dict that save_state builds, checked under Spec *)

\* C14: the state dict of every save has the fields args, model,
\* optimizer_history and extra_state and none of optimizer, best_loss, epoch,
\* batch_offset and val_loss, whatever history and extra state the save is
\* given, so _upgrade_state_dict returns it as it is.
C14_SaveWritesCurrentFormat ==
    last.name = "save" =>
        /\ DOMAIN last.state_dict = V3Fields
        /\ DOMAIN last.state_dict \cap LegacyTopLevel = {}
        /\ _upgrade_state_dict(last.state_dict) = last.state_dict
        /\ last.written => Upgraded = disk[TrainPath]

\* a save that is given the history of a load and an extra state, and whose
\* state dict is the file that a later load upgrades
C14_Witness ==
    /\ last.name = "save"
    /\ last.written
    /\ ~last.optim_history.is_none
    /\ Len(last.state_dict["optimizer_history"]) = 2
    /\ last.state_dict["extra_state"] # EmptyDict
    /\ disk[TrainPath] = last.state_dict

----------------------------------------------------------------------------
(* Properties of load_state under a failing import, checked under          *)
(* SpecImport                                                              *)

\* the places of a call in the calls of the last load
CallsOf(what) == {i \in 1..Len(last.calls) : last.calls[i] = what}

\* C17: load_state imports the weights before it reads the optimizer
\* history.  When the import raises, load_state raises that error, has
\* called the import once and no more, and leaves the optimizer state and
\* the best loss as they were before the call.
C17_ImportFailure ==
    (last.name = "load" /\ last.found /\ last.raised # "EOFError") =>
        /\ Cardinality(CallsOf("model.load_state_dict")) = 1
        /\ \A i \in CallsOf("model.load_state_dict"), j \in CallsOf("optim_history[-1]") : i < j
        /\ last.import_raises =>
            /\ last.raised = "RuntimeError"
            /\ CallsOf("optim_history[-1]") = {}
            /\ CallsOf("optimizer.load_state_dict") = {}
            /\ optimizer = last.pre.optimizer
            /\ best = last.pre.best

\* a load whose import raises, of a file whose last entry was made with the
\* caller's criterion and holds another optimizer state than the caller's
C17_Witness ==
    /\ last.name = "load"
    /\ last.import_raises
    /\ last.raised = "RuntimeError"
    /\ Upgraded["optimizer_history"][Len(Upgraded["optimizer_history"])].criterion_name
         = criterion
    /\ Upgraded["optimizer_history"][Len(Upgraded["optimizer_history"])].optimizer
         # last.pre.optimizer
    /\ optimizer = last.pre.optimizer

----------------------------------------------------------------------------
(* Properties of the optimizer history, checked under Spec *)

\* C18: the state dict of every save, whatever history the save is given,
\* and the upgrade of every legacy state dict have an optimizer history of
\* at least one entry, so the last entry that load_state reads exists for
\* every file written or upgraded by this module.
C18_HistoryNeverEmpty ==
    /\ last.name = "save" => Len(last.state_dict["optimizer_history"]) >= 1
    /\ (TrainPath \in DOMAIN disk /\ Readable(disk[TrainPath]))
         => Len(Upgraded["optimizer_history"]) >= 1
    /\ last.name = "load" => last.raised # "IndexError"

\* a load of the file of a save that was given no history: the last entry
\* it reads is the one entry of the save
C18_Witness ==
    /\ last.name = "load"
    /\ last.found
    /\ last.prev.name = "save"
    /\ last.prev.written
    /\ IsV3(disk[TrainPath])
    /\ Len(last.optim_history) = 1
    /\ last.optim_history[1].optimizer = last.prev.objects.optimizer

----------------------------------------------------------------------------
(* Properties of the arguments of save_state, checked under SpecResave *)

\* C19: save_state leaves the list it is given as optim_history as it was,
\* in length and in entries, whether its write succeeds or fails; every one
\* of the saves that are given the same list builds a state dict whose
\* history is that list and one entry more.
C19_SaveKeepsInputs ==
    last.name = "save" =>
        /\ chain = last.given
        /\ chain = last.first_given
        /\ Len(last.state_dict["optimizer_history"]) = Len(last.first_given) + 1
        /\ SubSeq(last.state_dict["optimizer_history"], 1, Len(last.first_given))
             = last.first_given
        /\ last.written => disk[TrainPath] = last.state_dict

\* the second save with a list of two entries, its write failing
C19_WitnessFailed ==
    /\ last.name = "save"
    /\ last.calls = 2
    /\ ~last.written
    /\ Len(last.first_given) = 2
    /\ chain = last.first_given

\* the second save with a list of two entries, stored with three entries
C19_Witness ==
    /\ last.name = "save"
    /\ last.calls = 2
    /\ last.written
    /\ Len(chain) = 2
    /\ Len(disk[TrainPath]["optimizer_history"]) = 3

====
